---- MODULE Spec2Model ----
(***************************************************************************)
(* A model of the PostgreSQL MCP server: the JSON-RPC endpoint of          *)
(* app/mcp.py (mcp_endpoint, process_jsonrpc_request, dispatch_request,    *)
(* the tool handlers, get_postgres_service) and the connection pool of     *)
(* app/postgres_service.py.  Requests are served by asyncio coroutines on  *)
(* one thread: a coroutine runs without interruption from one await to the *)
(* next, so each action below is the code between two awaits.              *)
(***************************************************************************)
EXTENDS Integers, Sequences, FiniteSets, TLC

\* Number of requests that can be in flight at once.
NumProcs == 2
\* Cap on the number of pool objects asyncpg.create_pool hands out in a run.
MaxPools == 2

Procs == 1 .. NumProcs

(***************************************************************************)
(* JSON values.  A string-valued argument is a TLA+ string; the two        *)
(* sentinels stand for a key that is absent and for a value that is not a  *)
(* string.  An id keeps its JSON type beside its text, so that the number  *)
(* 1 and the string "1" differ.                                            *)
(***************************************************************************)
Missing == "<missing>"
NonString == "<non-string>"

NoId == [t |-> "absent", v |-> ""]
NullId == [t |-> "null", v |-> ""]
NumId == [t |-> "number", v |-> "1"]
StrId == [t |-> "string", v |-> "1"]
Ids == {NoId, NumId, StrId}

\* The messages the echo tool is given: empty, plain, multi-line, non-ASCII.
Messages == {"", "hi", "line1\nline2", "xin chao - é"}

\* str.strip() on the SQL texts of the model.
Strip(s) == IF s \in {"", "  ", "\n"} THEN "" ELSE s

\* dict.get(key, default) on an arguments object.
Get(arguments, key, default) ==
    IF arguments[key] = Missing THEN default ELSE arguments[key]

NoParams == [present |-> FALSE, name |-> Missing, isobject |-> FALSE,
             message |-> Missing, query |-> Missing, table_name |-> Missing]

\* params = {"name": name, "arguments": {...}}; isobject is FALSE when
\* "arguments" is JSON null.
Call(name, isobject, message, query, table_name) ==
    [present |-> TRUE, name |-> name, isobject |-> isobject,
     message |-> message, query |-> query, table_name |-> table_name]

Envelope(jsonrpc, method, id, params) ==
    [body |-> "object", jsonrpc |-> jsonrpc, method |-> method, id |-> id,
     params |-> params]

\* A body that is not JSON, and a JSON body that is not an object.
GarbageBody == [body |-> "garbage", jsonrpc |-> Missing, method |-> Missing,
                id |-> NoId, params |-> NoParams]
\* A body whose bytes are no UTF-8 text, such as Latin-1 encoded JSON.
UndecodableBody == [body |-> "undecodable", jsonrpc |-> Missing,
                    method |-> Missing, id |-> NoId, params |-> NoParams]
NonObjectBody == [body |-> "nonobject", jsonrpc |-> Missing, method |-> Missing,
                  id |-> NoId, params |-> NoParams]

\* tools/call parameters: every tool, each with the argument cases its
\* handler tells apart.
ToolCalls ==
    {Call("echo", TRUE, m, Missing, Missing) : m \in Messages \cup {Missing}}
    \cup {Call("echo", FALSE, Missing, Missing, Missing)}
    \cup {Call(n, TRUE, Missing, Missing, Missing) :
            n \in {"bogus_tool", Missing, "postgres_connection_test",
                   "postgres_schema"}}
    \cup {Call("postgres_query", TRUE, Missing, q, Missing) :
            q \in {"", "  ", "SELECT 1"}}
    \cup {Call("postgres_table_info", TRUE, Missing, Missing, t) :
            t \in {Missing, "users"}}
    \cup {Call("postgres_query_analyze", TRUE, Missing, q, Missing) :
            q \in {"  ", "SELECT 1"}}

\* The call sent with every kind of id; the others carry the number id.
ProbeCalls == {Call("echo", TRUE, "hi", Missing, Missing)}

Requests ==
    {GarbageBody, UndecodableBody, NonObjectBody}
    \cup {Envelope("1.0", "tools/list", i, NoParams) : i \in Ids}
    \cup {Envelope("2.0", m, i, NoParams) :
            m \in {"tools/list", "tools/call", "bogus/method"}, i \in Ids}
    \cup {Envelope("2.0", m, NumId, NoParams) :
            m \in {Missing, "initialize", "resources/list"}}
    \cup {Envelope("2.0", "tools/call", i, c) : i \in Ids, c \in ProbeCalls}
    \cup {Envelope("2.0", "tools/call", NumId, c) : c \in ToolCalls}

(***************************************************************************)
(* Exceptions and handler outcomes.  An outcome is a returned result or a  *)
(* raised exception with its class and its message; a message or a text is *)
(* the sequence of the pieces an f-string joins.                           *)
(***************************************************************************)
\* A result payload: its keys, the items of "content" (for a tool result),
\* the "isError" flag and, for the other methods, the values it lists.
NoResult == [keys |-> {}, content |-> <<>>, isError |-> FALSE, data |-> <<>>]

Ok(result) == [exc |-> "none", msg |-> <<>>, result |-> result]
Raise(class, msg) == [exc |-> class, msg |-> msg, result |-> NoResult]

\* Python's classes: `except ValueError` takes ValueError and its subclasses.
IsValueError(class) == class \in {"ValueError"}

\* The text item and flag every tool handler returns.
ToolResult(text, isError) ==
    [keys |-> {"content", "isError"},
     content |-> <<[type |-> "text", text |-> text]>>,
     isError |-> isError, data |-> <<>>]

InitializeResult ==
    [keys |-> {"protocol_version", "capabilities", "server_info"},
     content |-> <<>>, isError |-> FALSE,
     data |-> <<"2024-11-05", "tools.listChanged: False",
                "resources.listChanged: False", "postgres-mcp-server",
                "1.0.0">>]

handle_initialize_propagates(warmup) ==
    IF warmup.exc = "none" THEN Ok(InitializeResult) ELSE warmup

\* handle_initialize, lines 50-73: warmup is the outcome of the await of
\* get_postgres_service at line 54, whose exception lines 56-57 log and drop.
handle_initialize(warmup) == Ok(InitializeResult)

ToolNames == <<"echo", "postgres_connection_test", "postgres_query",
               "postgres_schema", "postgres_table_info",
               "postgres_query_analyze">>

ToolsListResult ==
    [keys |-> {"tools"}, content |-> <<>>, isError |-> FALSE, data |-> ToolNames]

ResourcesListResult ==
    [keys |-> {"resources"}, content |-> <<>>, isError |-> FALSE, data |-> <<>>]

ToolsWithoutAnalyze ==
    {"postgres_connection_test", "postgres_query", "postgres_schema",
     "postgres_table_info"}

\* handle_tools_call, lines 186-192
valid_postgres_tools ==
    {"postgres_connection_test", "postgres_query", "postgres_schema",
     "postgres_table_info", "postgres_query_analyze"}

handlers == {"initialize", "tools/list", "tools/call", "resources/list"}

(***************************************************************************)
(* app/json_rpc.py is not among the sources: the request model and the two *)
(* response constructors follow the specification's data model (section 3  *)
(* and section 6).                                                         *)
(***************************************************************************)
PARSE_ERROR == 0 - 32700
METHOD_NOT_FOUND == 0 - 32601
INTERNAL_ERROR == 0 - 32603

ErrorCode(name) ==
    CASE name = "PARSE_ERROR" -> PARSE_ERROR
      [] name = "METHOD_NOT_FOUND" -> METHOD_NOT_FOUND
      [] name = "INTERNAL_ERROR" -> INTERNAL_ERROR

NoError == [code |-> 0, message |-> <<>>]
NoResponse == [keys |-> {}, id |-> NullId, result |-> NoResult, error |-> NoError]

\* JsonRpcRequest(**request_data) accepts the envelope.
ValidEnvelope(r) ==
    /\ r.jsonrpc = "2.0"
    /\ r.method # Missing
    /\ r.id.t \in {"absent", "null", "number", "string"}

\* rpc_request.id: the id as the request model holds it (None when absent).
ParsedId(r) == IF r.id.t = "absent" THEN NullId ELSE r.id

create_success_response(result, id) ==
    [keys |-> {"jsonrpc", "id", "result"}, id |-> id, result |-> result,
     error |-> NoError]

create_error_response(name, message, id) ==
    [keys |-> {"jsonrpc", "id", "error"}, id |-> id, result |-> NoResult,
     error |-> [code |-> ErrorCode(name), message |-> message]]

(***************************************************************************)
(* process_jsonrpc_request, lines 446-478: the wrapping of a dispatch      *)
(* outcome into the response.                                              *)
(***************************************************************************)
\* request_data.get("id")
RequestDataId(r) == IF r.id.t = "absent" THEN NullId ELSE r.id

ErrorIdDropped(r) == NullId

\* The id the two except branches echo (lines 467 and 476).
ErrorId(r) == RequestDataId(r)

WrapReturnsBareResult(r, out) ==
    IF out.exc = "none"
    THEN [keys |-> out.result.keys, id |-> NullId, result |-> out.result,
          error |-> NoError]
    ELSE create_error_response("INTERNAL_ERROR", <<"Internal server error">>,
                               ErrorId(r))

WrapLeaksMessage(r, out) ==
    IF out.exc = "none"
    THEN create_success_response(out.result, ParsedId(r))
    ELSE IF IsValueError(out.exc)
    THEN create_error_response("METHOD_NOT_FOUND", out.msg, ErrorId(r))
    ELSE create_error_response("INTERNAL_ERROR", out.msg, ErrorId(r))

Wrap(r, out) ==
    IF out.exc = "none"
    THEN create_success_response(out.result, ParsedId(r))
    ELSE IF IsValueError(out.exc)
    THEN create_error_response("METHOD_NOT_FOUND", out.msg, ErrorId(r))
    ELSE create_error_response("INTERNAL_ERROR", <<"Internal server error">>,
                               ErrorId(r))

(***************************************************************************)
(* mcp_endpoint, lines 507-532: the two fallback branches.  request.json()  *)
(* at line 509 is json.loads on the bytes of the body: text that is no     *)
(* JSON raises JSONDecodeError, and bytes that are no UTF-8 text raise     *)
(* UnicodeDecodeError, which the handler at line 518 does not take and the *)
(* handler at line 526 does.  A JSON body that is no object raises         *)
(* TypeError at line 450; the handler at line 471 then calls               *)
(* request_data.get, which raises AttributeError out of                    *)
(* process_jsonrpc_request and into the handler at line 526.               *)
(***************************************************************************)
\* The exception mcp_endpoint catches for a body that is no JSON object.
BodyError(r) ==
    CASE r.body = "garbage" -> "JSONDecodeError"
      [] r.body = "undecodable" -> "UnicodeDecodeError"
      [] r.body = "nonobject" -> "AttributeError"

EndpointFallback(r) ==
    IF BodyError(r) = "JSONDecodeError"
    THEN create_error_response("PARSE_ERROR", <<"Invalid JSON">>, NullId)
    ELSE create_error_response("INTERNAL_ERROR", <<"Internal server error">>,
                               NullId)

(***************************************************************************)
(* handle_tools_call, lines 166-418.                                       *)
(***************************************************************************)
EchoDropsMessage(message) == ToolResult(<<"Echo: ">>, FALSE)

\* lines 173-183
EchoResult(message) == ToolResult(<<"Echo: ", message>>, FALSE)

UnknownToolAsException(name) == Raise("Exception", <<"Unknown tool: ", name>>)

\* line 195
UnknownTool(name) == Raise("ValueError", <<"Unknown tool: ", name>>)

ToolCatchReraisesAll(out) == out

\* lines 405-418: ValueError is re-raised, anything else becomes a tool error.
ToolCatch(out) ==
    IF out.exc = "none" \/ IsValueError(out.exc)
    THEN out
    ELSE Ok(ToolResult(<<"Tool execution error: ">> \o out.msg, TRUE))

NoneTypeGet == <<"'NoneType' object has no attribute 'get'">>
NoStrip == <<"object has no attribute 'strip'">>

ToolPrologueCatchesAll(params) ==
    IF ~params.present THEN ToolCatch(Raise("AttributeError", NoneTypeGet))
    ELSE IF params.name = "echo"
    THEN IF ~params.isobject
         THEN ToolCatch(Raise("AttributeError", NoneTypeGet))
         ELSE ToolCatch(Ok(EchoResult(Get(params, "message", ""))))
    ELSE ToolCatch(UnknownTool(params.name))

\* lines 168-195: the part of a tool call that runs before get_postgres_service.
\* params.get at line 168 is outside the try.
ToolPrologue(params) ==
    IF ~params.present THEN Raise("AttributeError", NoneTypeGet)
    ELSE IF params.name = "echo"
    THEN IF ~params.isobject
         THEN ToolCatch(Raise("AttributeError", NoneTypeGet))
         ELSE ToolCatch(Ok(EchoResult(Get(params, "message", ""))))
    ELSE ToolCatch(UnknownTool(params.name))

\* The call goes on to line 198.
IsPostgresCall(params) ==
    params.present /\ params.name \in valid_postgres_tools

MethodNotFoundAsKeyError(method) == Raise("KeyError", <<method>>)

\* dispatch_request, lines 435-437
MethodNotFound(method) == Raise("ValueError", <<"Method not found: ", method>>)

\* The request reaches get_postgres_service.
NeedsService(r) ==
    \/ r.method = "initialize"
    \/ r.method = "tools/call" /\ IsPostgresCall(r.params)

\* dispatch_request and the handlers that never await.
DispatchSync(r) ==
    CASE r.method \notin handlers -> MethodNotFound(r.method)
      [] r.method = "tools/list" -> Ok(ToolsListResult)
      [] r.method = "resources/list" -> Ok(ResourcesListResult)
      [] r.method = "tools/call" -> ToolPrologue(r.params)

\* An outcome that is no outcome yet: the handler awaits a service operation.
Await == [exc |-> "await", msg |-> <<>>, result |-> NoResult]

QueryCannotBeEmpty == ToolResult(<<"Error: ", "Query cannot be empty">>, TRUE)
TableNameRequired == ToolResult(<<"Error: ", "table_name is required">>, TRUE)

\* lines 224-236 and 364-375: the query argument of postgres_query and
\* postgres_query_analyze.
QueryArgument(params) ==
    IF ~params.isobject THEN Raise("AttributeError", NoneTypeGet)
    ELSE IF Get(params, "query", "") = NonString
    THEN Raise("AttributeError", NoStrip)
    ELSE IF Strip(Get(params, "query", "")) = "" THEN Ok(QueryCannotBeEmpty)
    ELSE Await

\* lines 311-323
TableArgument(params) ==
    IF ~params.isobject THEN Raise("AttributeError", NoneTypeGet)
    ELSE IF Get(params, "table_name", "") = "" THEN Ok(TableNameRequired)
    ELSE Await

\* lines 200-377: what a PostgreSQL tool does with its arguments once it has
\* the service, up to the await of the service operation.
ToolArguments(params) ==
    CASE params.name \in {"postgres_connection_test", "postgres_schema"} -> Await
      [] params.name \in {"postgres_query", "postgres_query_analyze"} ->
            QueryArgument(params)
      [] params.name = "postgres_table_info" -> TableArgument(params)

\* The text a tool makes of a successful service result.
SuccessText(name) ==
    CASE name = "postgres_connection_test" ->
            <<"PostgreSQL Connection Test: SUCCESS">>
      [] name = "postgres_query" -> <<"Query executed successfully!">>
      [] name = "postgres_schema" -> <<"Database Schema for: ">>
      [] name = "postgres_table_info" -> <<"Table Information: ">>
      [] name = "postgres_query_analyze" -> <<"Query Performance Analysis">>

\* The text a tool makes of a failed service result, whose error is err.
FailureText(name, err) ==
    CASE name = "postgres_connection_test" ->
            <<"PostgreSQL Connection Test: FAILED", "Error: ", err>>
      [] name = "postgres_query" -> <<"Query failed: ", err>>
      [] name = "postgres_schema" -> <<"Failed to get schema: ", err>>
      [] name = "postgres_table_info" -> <<"Failed to get table info: ", err>>
      [] name = "postgres_query_analyze" -> <<"Query analysis failed: ", err>>

\* lines 213-221, 270-278, 300-308, 353-361, 395-403
ServiceResult(name, success, err) ==
    IF success THEN Ok(ToolResult(SuccessText(name), FALSE))
    ELSE Ok(ToolResult(FailureText(name, err), TRUE))

GpsFailureAsValueError(err) ==
    Raise("ValueError", <<"PostgreSQL connection failed: ", err>>)

\* get_postgres_service, line 38
GpsFailure(err) == Raise("Exception", <<"PostgreSQL connection failed: ", err>>)

\* str(e) of the exceptions the database driver and a None pool raise.
DbError == "connection refused"
PoolInitError == "Failed to initialize connection pool"
NoneTypeAcquire == "'NoneType' object has no attribute 'acquire'"

(***************************************************************************)
(* The service operations of postgres_service.py.  A tool names the        *)
(* operation it calls: postgres_connection_test is test_connection,        *)
(* postgres_query is execute_query, postgres_schema is                     *)
(* get_database_schema, postgres_table_info is get_table_info and          *)
(* postgres_query_analyze is analyze_query_performance.                    *)
(***************************************************************************)
\* The SQL texts execute_query is given when it is called directly.
SqlTexts == {"", "  ", "SELECT 1", "delete from t"}

\* More of them: a SELECT in lower case after white space, statements of
\* other kinds, a SELECT in parentheses and the empty statement.
Statements ==
    SqlTexts \cup {"\tselect a, b\nfrom t", "CREATE TABLE u (a int)",
                   "insert into t values (1)", "(SELECT 1)", ";"}

\* The characters of the SQL texts and of the status tags of the model.
Spell(text) ==
    CASE text = "" ->
            <<>>
      [] text = "  " ->
            <<" ", " ">>
      [] text = "\n" ->
            <<"\n">>
      [] text = "SELECT 1" ->
            <<"S", "E", "L", "E", "C", "T", " ", "1">>
      [] text = "delete from t" ->
            <<"d", "e", "l", "e", "t", "e", " ", "f", "r", "o", "m", " ",
              "t">>
      [] text = "\tselect a, b\nfrom t" ->
            <<"\t", "s", "e", "l", "e", "c", "t", " ", "a", ",", " ", "b",
              "\n", "f", "r", "o", "m", " ", "t">>
      [] text = "CREATE TABLE u (a int)" ->
            <<"C", "R", "E", "A", "T", "E", " ", "T", "A", "B", "L", "E",
              " ", "u", " ", "(", "a", " ", "i", "n", "t", ")">>
      [] text = "insert into t values (1)" ->
            <<"i", "n", "s", "e", "r", "t", " ", "i", "n", "t", "o", " ",
              "t", " ", "v", "a", "l", "u", "e", "s", " ", "(", "1", ")">>
      [] text = "(SELECT 1)" ->
            <<"(", "S", "E", "L", "E", "C", "T", " ", "1", ")">>
      [] text = ";" ->
            <<";">>
      [] text = "DELETE 0" ->
            <<"D", "E", "L", "E", "T", "E", " ", "0">>
      [] text = "DELETE 3" ->
            <<"D", "E", "L", "E", "T", "E", " ", "3">>
      [] text = "CREATE TABLE" ->
            <<"C", "R", "E", "A", "T", "E", " ", "T", "A", "B", "L", "E">>
      [] text = "INSERT 0 1" ->
            <<"I", "N", "S", "E", "R", "T", " ", "0", " ", "1">>

\* The characters str.strip() removes and str.split() splits at.
Whitespace == {" ", "\t", "\n"}

LowerCase == <<"a", "b", "c", "d", "e", "f", "g", "h", "i", "j", "k", "l", "m",
               "n", "o", "p", "q", "r", "s", "t", "u", "v", "w", "x", "y", "z">>
UpperCase == <<"A", "B", "C", "D", "E", "F", "G", "H", "I", "J", "K", "L", "M",
               "N", "O", "P", "Q", "R", "S", "T", "U", "V", "W", "X", "Y", "Z">>

\* str.upper() on a sequence of characters.
upper(text) ==
    [i \in DOMAIN text |->
        IF \E j \in DOMAIN LowerCase : LowerCase[j] = text[i]
        THEN UpperCase[CHOOSE j \in DOMAIN LowerCase : LowerCase[j] = text[i]]
        ELSE text[i]]

RECURSIVE lstrip(_)
lstrip(text) ==
    IF text # <<>> /\ Head(text) \in Whitespace THEN lstrip(Tail(text))
    ELSE text

RECURSIVE rstrip(_)
rstrip(text) ==
    IF text # <<>> /\ text[Len(text)] \in Whitespace
    THEN rstrip(SubSeq(text, 1, Len(text) - 1))
    ELSE text

\* str.strip() on a sequence of characters.
strip(text) == rstrip(lstrip(text))

\* The length of the run of non-whitespace characters at the head of text.
RECURSIVE WordLen(_)
WordLen(text) ==
    IF text = <<>> \/ Head(text) \in Whitespace THEN 0
    ELSE 1 + WordLen(Tail(text))

\* str.split() on a sequence of characters: its words, in order.
RECURSIVE split(_)
split(text) ==
    LET rest == lstrip(text) IN
    IF rest = <<>> THEN <<>>
    ELSE <<SubSeq(rest, 1, WordLen(rest))>>
         \o split(SubSeq(rest, WordLen(rest) + 1, Len(rest)))

\* query.strip().upper().split() of line 137.
Words(query) == split(upper(strip(Spell(query))))

SELECT == <<"S", "E", "L", "E", "C", "T">>

\* str(e) of the IndexError of `[0]` on an empty list (line 137).
IndexOutOfRange == "list index out of range"

\* The values asyncpg makes of the columns of a row: an int, a str, a
\* datetime.date, a datetime.datetime and a datetime.time, each with the
\* fields of its value.
IntValue == [type |-> "int", v |-> <<"7">>]
StrValue == [type |-> "str", v |-> <<"x">>]
DateValue == [type |-> "date", v |-> <<"2024", "01", "02">>]
DatetimeValue ==
    [type |-> "datetime", v |-> <<"2024", "01", "02", "03", "04", "05">>]
TimeValue == [type |-> "time", v |-> <<"03", "04", "05">>]

\* isinstance(value, classes): datetime.datetime is a subclass of
\* datetime.date, datetime.time is a subclass of neither.
isinstance(value, classes) ==
    \/ value.type \in classes
    \/ value.type = "datetime" /\ "date" \in classes

\* value.isoformat(): the str of the ISO-8601 form.
isoformat(value) ==
    [type |-> "str",
     v |-> CASE value.type = "date" ->
                  <<value.v[1], "-", value.v[2], "-", value.v[3]>>
             [] value.type = "datetime" ->
                  <<value.v[1], "-", value.v[2], "-", value.v[3], "T",
                    value.v[4], ":", value.v[5], ":", value.v[6]>>
             [] value.type = "time" ->
                  <<value.v[1], ":", value.v[2], ":", value.v[3]>>]

\* The most rows a SELECT of the model returns.
MaxRows == 2

\* The keys of the records conn.fetch returns for a SELECT of the model:
\* the columns the query projects.
Projection(query) ==
    CASE query = "SELECT 1" -> <<"?column?">>
      [] query = "\tselect a, b\nfrom t" -> <<"a", "b">>

\* The values a column of the model can hold.
ColumnValues(key) ==
    CASE key = "?column?" -> {IntValue}
      [] key = "a" -> {IntValue, StrValue}
      [] key = "b" -> {DateValue, DatetimeValue, TimeValue}

\* The records a SELECT can return: a record is the sequence of its keys
\* with their values.
Records(query) ==
    LET keys == Projection(query)
        values == UNION {ColumnValues(keys[i]) : i \in DOMAIN keys} IN
    {rec \in [DOMAIN keys -> [key : {keys[i] : i \in DOMAIN keys},
                              value : values]] :
        \A i \in DOMAIN keys : /\ rec[i].key = keys[i]
                               /\ rec[i].value \in ColumnValues(keys[i])}

\* What conn.fetch can return for a SELECT: a list of records.
RowLists(query) ==
    UNION {[1..n -> Records(query)] :
             n \in IF query = "SELECT 1" THEN {1} ELSE 0..MaxRows}

\* What conn.execute can return for a statement: the status tag of the
\* command, which is empty for an empty statement.
StatusTags(query) ==
    CASE query = "delete from t" -> {Spell("DELETE 0"), Spell("DELETE 3")}
      [] query \in {"SELECT 1", "\tselect a, b\nfrom t"} ->
            {Spell("SELECT 1")}
      [] query = "CREATE TABLE u (a int)" -> {Spell("CREATE TABLE")}
      [] query = "insert into t values (1)" -> {Spell("INSERT 0 1")}
      [] query = "(SELECT 1)" -> {Spell("SELECT 1")}
      [] query = ";" -> {Spell("")}

\* A row of pg_tables, and the lists of them the catalog can hold.  A quoted
\* identifier may contain a dot.
Table(schemaname, tablename) ==
    [schemaname |-> schemaname, tablename |-> tablename]

TableLists ==
    {<<>>,
     <<Table(<<"s">>, <<"t">>)>>,
     <<Table(<<"s">>, <<"t">>), Table(<<"s">>, <<"u">>)>>,
     <<Table(<<"a">>, <<"b", ".", "c">>), Table(<<"a", ".", "b">>, <<"c">>)>>}

\* Python values of an execution plan: a list, a dict, a str or a number.
PyList(items) == [type |-> "list", v |-> items]
PyDict(items) == [type |-> "dict", v |-> items]
PyStr(chars) == [type |-> "str", v |-> chars]
PyNum(n) == [type |-> "float", v |-> n]

RootNode ==
    PyDict("Total Cost" :> PyNum(9) @@ "Startup Cost" :> PyNum(1)
           @@ "Actual Total Time" :> PyNum(3) @@ "Actual Rows" :> PyNum(1)
           @@ "Node Type" :> PyStr(<<"Result">>)
           @@ "Shared Hit Blocks" :> PyNum(4)
           @@ "Shared Read Blocks" :> PyNum(0)
           @@ "Temp Read Blocks" :> PyNum(0)
           @@ "Temp Written Blocks" :> PyNum(0))

\* What the first column of the row of an EXPLAIN can be: the decoded plan,
\* the plan as JSON text (asyncpg decodes json only with a codec), or a
\* list that lacks the root node.
Plans ==
    {PyList(<<PyDict("Plan" :> RootNode)>>),
     PyStr(<<"[", "{", "}", "]">>),
     PyList(<<>>),
     PyList(<<PyDict("Execution Time" :> PyNum(3))>>),
     PyList(<<PyDict("Plan" :> PyList(<<>>))>>)}

\* The reply to a round trip: the value it returns or the exception it
\* raises; Pending while the coroutine waits for it.  A value that may be
\* missing is a sequence, empty or of the one value.
Reply(value) == [answered |-> TRUE, error |-> Missing, value |-> <<value>>]
Failed(err) == [answered |-> TRUE, error |-> err, value |-> <<>>]
Pending == [answered |-> FALSE, error |-> Missing, value |-> <<>>]

\* A round trip: the statement sent and the reply to it.
Trip(statement) == [statement |-> statement, reply |-> Pending]

\* fetchrow returns None when the query has no row.
NoRow == "<None>"

\* The queries of get_table_info, in the order of its awaits (lines 268,
\* 290, 300 and 304).
TableInfoQueries ==
    <<"table_query", "columns_query", "indexes_query", "count_query">>

FirstStatementCaseSensitive(name, query) ==
    CASE name = "postgres_query" ->
            IF split(strip(Spell(query)))[1] = SELECT THEN "fetch"
            ELSE "execute"
      [] name = "postgres_schema" -> "tables_query"
      [] name = "postgres_table_info" -> TableInfoQueries[1]
      [] name = "postgres_query_analyze" -> "explain_query"
      [] name = "postgres_connection_test" -> "version_query"

\* The first round trip of an operation: execute_query fetches a SELECT and
\* executes any other statement (lines 137-143 and 163-168).
FirstStatement(name, query) ==
    CASE name = "postgres_query" ->
            IF Words(query)[1] = SELECT THEN "fetch" ELSE "execute"
      [] name = "postgres_schema" -> "tables_query"
      [] name = "postgres_table_info" -> TableInfoQueries[1]
      [] name = "postgres_query_analyze" -> "explain_query"
      [] name = "postgres_connection_test" -> "version_query"

\* What the database can reply to a statement.
Replies(statement, query) ==
    {Failed(DbError)}
    \cup {Reply(value) :
            value \in CASE statement = "fetch" -> RowLists(query)
                        [] statement = "execute" -> StatusTags(query)
                        [] statement = "tables_query" -> TableLists
                        [] statement = "table_query" -> {"table_row", NoRow}
                        [] statement = "explain_query" -> Plans
                        [] OTHER -> {<<statement, "rows">>}}

\* The dictionary a service operation returns; Missing is a key it lacks,
\* and so is the empty sequence for a key whose value is no str.
NoResultDict ==
    [returned |-> FALSE, success |-> FALSE, error |-> Missing,
     query |-> Missing, query_type |-> <<>>, row_count |-> <<>>,
     data |-> <<>>, columns |-> <<>>, affected_rows |-> <<>>,
     table_info |-> <<>>, indexes |-> <<>>, table_count |-> <<>>,
     schema_count |-> <<>>, schema |-> <<>>,
     execution_plan |-> <<>>, analysis |-> <<>>]

\* The operations that return at once when initialize_pool returned False
\* (lines 93-99 and 127-134); the others ignore what it returned.
ChecksPoolInit(name) == name \in {"postgres_connection_test", "postgres_query"}

\* The operations whose failure dictionary carries the "query" key.
CarriesQuery(name) == name \in {"postgres_query", "postgres_query_analyze"}

execute_query_failed_without_query(err, query) ==
    [NoResultDict EXCEPT !.returned = TRUE, !.error = err]

\* execute_query, lines 130-134 and 177-183: the dictionary of a failure.
execute_query_failed(err, query) ==
    [NoResultDict EXCEPT !.returned = TRUE, !.error = err, !.query = query]

\* The dictionary an operation returns from its `except Exception` clause,
\* from its pool_init check or from its not-found return.
OperationFailed(name, err, query) ==
    IF name = "postgres_query" THEN execute_query_failed(err, query)
    ELSE [NoResultDict EXCEPT
            !.returned = TRUE, !.error = err,
            !.query = IF CarriesQuery(name) THEN query ELSE Missing]

\* lines 147-154: the dictionary made of a record, a date or a datetime
\* replaced by its ISO form.
row_dict(row) ==
    [i \in DOMAIN row |->
        [key |-> row[i].key,
         value |-> IF isinstance(row[i].value, {"datetime", "date"})
                   THEN isoformat(row[i].value)
                   ELSE row[i].value]]

execute_query_select_no_columns(rows) ==
    [NoResultDict EXCEPT
       !.returned = TRUE, !.success = TRUE, !.query_type = <<SELECT>>,
       !.row_count = <<Len(rows)>>,
       !.data = <<[i \in DOMAIN rows |-> row_dict(rows[i])]>>,
       !.columns = <<<<>>>>]

\* execute_query, lines 139-162: the dictionary of a SELECT.
execute_query_select(rows) ==
    [NoResultDict EXCEPT
       !.returned = TRUE, !.success = TRUE, !.query_type = <<SELECT>>,
       !.row_count = <<Len(rows)>>,
       !.data = <<[i \in DOMAIN rows |-> row_dict(rows[i])]>>,
       !.columns = <<IF rows # <<>>
                     THEN [i \in DOMAIN rows[1] |-> rows[1][i].key]
                     ELSE <<>>>>]

\* line 173: result.split()[-1] if result else "0"
affected_rows(tag) ==
    IF tag # <<>> THEN split(tag)[Len(split(tag))] ELSE <<"0">>

\* execute_query, lines 163-175: the dictionary of another statement.
execute_query_other(query_type, tag) ==
    [NoResultDict EXCEPT
       !.returned = TRUE, !.success = TRUE, !.query_type = <<query_type>>,
       !.affected_rows = <<affected_rows(tag)>>]

\* line 225: f"{schema_name}.{table_name}"
full_table_name(table) == table.schemaname \o <<".">> \o table.tablename

\* get_database_schema, lines 204-239: schema_info["tables"] has, under the
\* full name of a table, the entry of the last listed table of that name.
get_database_schema(tables) ==
    [NoResultDict EXCEPT
       !.returned = TRUE, !.success = TRUE,
       !.schema_count =
          <<Cardinality({tables[i].schemaname : i \in DOMAIN tables})>>,
       !.table_count = <<Len(tables)>>,
       !.schema =
          <<[key \in {full_table_name(tables[i]) : i \in DOMAIN tables} |->
               tables[CHOOSE i \in DOMAIN tables :
                        /\ full_table_name(tables[i]) = key
                        /\ \A j \in DOMAIN tables :
                             full_table_name(tables[j]) = key => j <= i]]>>]

\* get_table_info, lines 306-312: the dictionary of the four replies.
get_table_info(got) ==
    [NoResultDict EXCEPT
       !.returned = TRUE, !.success = TRUE,
       !.table_info = got[1].reply.value, !.columns = got[2].reply.value,
       !.indexes = got[3].reply.value, !.row_count = got[4].reply.value]

\* x[i] of Python for an index i, on a value of a plan: the item or the
\* exception.
index(x, i) ==
    CASE x.type = "list" ->
            IF i + 1 \in DOMAIN x.v THEN Reply(x.v[i + 1])
            ELSE Failed("list index out of range")
      [] x.type = "str" ->
            IF i + 1 \in DOMAIN x.v THEN Reply(PyStr(<<x.v[i + 1]>>))
            ELSE Failed("string index out of range")
      [] x.type = "dict" -> Failed("KeyError: 0")
      [] OTHER -> Failed("object is not subscriptable")

\* x[key] of Python for a str key.
item(x, key) ==
    CASE x.type = "dict" ->
            IF key \in DOMAIN x.v THEN Reply(x.v[key])
            ELSE Failed(<<"KeyError: ", key>>)
      [] x.type = "list" ->
            Failed("list indices must be integers or slices, not str")
      [] x.type = "str" -> Failed("string indices must be integers")
      [] OTHER -> Failed("object is not subscriptable")

\* plan.get(key, default) on a dict.
plan_get(plan, key, default) ==
    IF key \in DOMAIN plan.v THEN plan.v[key] ELSE default

_extract_performance_metrics_defaults(plan_data) ==
    "total_cost" :> PyNum(0) @@ "node_type" :> PyStr(<<"Unknown">>)

\* _extract_performance_metrics, lines 349-367.
_extract_performance_metrics(plan_data) ==
    LET first == index(plan_data, 0)
        plan == item(first.value[1], "Plan") IN
    IF first.error # Missing THEN "error" :> first.error
    ELSE IF plan.error # Missing THEN "error" :> plan.error
    ELSE IF plan.value[1].type # "dict"
    THEN "error" :> "object has no attribute 'get'"
    ELSE "total_cost" :> plan_get(plan.value[1], "Total Cost", PyNum(0))
         @@ "startup_cost" :> plan_get(plan.value[1], "Startup Cost", PyNum(0))
         @@ "actual_time" :>
               plan_get(plan.value[1], "Actual Total Time", PyNum(0))
         @@ "rows" :> plan_get(plan.value[1], "Actual Rows", PyNum(0))
         @@ "node_type" :>
               plan_get(plan.value[1], "Node Type", PyStr(<<"Unknown">>))
         @@ "shared_hit_blocks" :>
               plan_get(plan.value[1], "Shared Hit Blocks", PyNum(0))
         @@ "shared_read_blocks" :>
               plan_get(plan.value[1], "Shared Read Blocks", PyNum(0))
         @@ "temp_read_blocks" :>
               plan_get(plan.value[1], "Temp Read Blocks", PyNum(0))
         @@ "temp_written_blocks" :>
               plan_get(plan.value[1], "Temp Written Blocks", PyNum(0))

\* analyze_query_performance, lines 332-339: the dictionary of a plan.
analyze_query_performance(query, plan_data) ==
    [NoResultDict EXCEPT
       !.returned = TRUE, !.success = TRUE, !.query = query,
       !.execution_plan = <<plan_data>>,
       !.analysis = <<_extract_performance_metrics(plan_data)>>]

\* The dictionary of a success, made of the replies of the round trips.
OperationSucceeded(name, query, got) ==
    CASE name = "postgres_query" ->
            IF got[1].statement = "fetch"
            THEN execute_query_select(got[1].reply.value[1])
            ELSE execute_query_other(Words(query)[1], got[1].reply.value[1])
      [] name = "postgres_schema" ->
            get_database_schema(got[1].reply.value[1])
      [] name = "postgres_table_info" -> get_table_info(got)
      [] name = "postgres_query_analyze" ->
            analyze_query_performance(query, got[1].reply.value[1])
      [] name = "postgres_connection_test" ->
            [NoResultDict EXCEPT !.returned = TRUE, !.success = TRUE]

TableNotFound == "Table public.users not found"

NextStatementIgnoresNotFound(name, got) ==
    IF got[Len(got)].reply.error # Missing THEN "raise"
    ELSE CASE name = "postgres_table_info" ->
                IF Len(got) = Len(TableInfoQueries) THEN "return"
                ELSE TableInfoQueries[Len(got) + 1]
           [] name = "postgres_schema" ->
                IF Len(got) - 1 < Len(got[1].reply.value[1])
                THEN "columns_query"
                ELSE "return"
           [] OTHER -> "return"

\* What the operation does once the replies `got` are in: it sends the next
\* statement, it returns, or the exception of the last reply takes it to its
\* except clause.  get_table_info returns when the table has no row (lines
\* 270-275); get_database_schema asks for the columns of each listed table
\* (lines 207-231).
NextStatement(name, got) ==
    IF got[Len(got)].reply.error # Missing THEN "raise"
    ELSE CASE name = "postgres_table_info" ->
                IF \/ got[1].reply.value = <<NoRow>>
                   \/ Len(got) = Len(TableInfoQueries)
                THEN "return"
                ELSE TableInfoQueries[Len(got) + 1]
           [] name = "postgres_schema" ->
                IF Len(got) - 1 < Len(got[1].reply.value[1])
                THEN "columns_query"
                ELSE "return"
           [] OTHER -> "return"

\* The dictionary the operation returns once its round trips have ended.
OperationResult(name, query, got) ==
    IF got[Len(got)].reply.error # Missing
    THEN OperationFailed(name, got[Len(got)].reply.error, query)
    ELSE IF name = "postgres_table_info" /\ got[1].reply.value = <<NoRow>>
    THEN OperationFailed(name, TableNotFound, query)
    ELSE IF /\ name = "postgres_query"
            /\ got[1].statement = "execute"
            /\ got[1].reply.value[1] # <<>>
            /\ split(got[1].reply.value[1]) = <<>>
    THEN OperationFailed(name, IndexOutOfRange, query)
    ELSE OperationSucceeded(name, query, got)

\* How the `async with` block is left.
Outcome(name, got) ==
    IF got[Len(got)].reply.error # Missing THEN "error"
    ELSE IF name = "postgres_table_info" /\ got[1].reply.value = <<NoRow>>
    THEN "notfound"
    ELSE "ok"

\* A connection of a pool: the pool whose acquire() was called, and whether
\* the connection has been handed out.
NoConn == [pool |-> 0, held |-> FALSE]

ReleaseOnSuccessOnly(c, p, outcome) ==
    IF outcome = "ok" THEN [c EXCEPT ![p] = NoConn] ELSE c

\* `async with self.connection_pool.acquire() as conn`: leaving the block,
\* by return or by exception, gives the connection back to its pool.
AsyncWithExit(c, p, outcome) == [c EXCEPT ![p] = NoConn]

\* close_pool, lines 82-86: the pool, if there is one, is closed.
close_pool(pool, cl) == IF pool # 0 THEN cl \cup {pool} ELSE cl

initialize_pool_closes_old(pool, cl) == close_pool(pool, cl)

\* initialize_pool, lines 69-74: the pools that are closed once create_pool
\* has returned and its pool has taken the place of `pool`.  The old pool is
\* closed by nobody: the attribute is simply assigned.
initialize_pool_closed(pool, cl) == cl

\* lifespan of main.py, lines 25-30: the shutdown part logs and closes
\* nothing.
lifespan_shutdown(pool, cl) == cl

(***************************************************************************)
(* The state.  connection_pool is real_postgres_service.connection_pool:   *)
(* 0 is None and k > 0 is the k-th pool object asyncpg.create_pool made;   *)
(* closed is the set of pool objects that have been closed.                *)
(* current_service is the global of mcp.py, TRUE once it is set, and       *)
(* serving is TRUE until the server shuts down.  Each request is a         *)
(* coroutine p: pc[p] is the await it is suspended at, req[p] its request  *)
(* body, connection_test[p] the status its call of test_connection at line *)
(* 32 returned ("none" before that), conn[p] the connection of its `async  *)
(* with` block, trips[p] the round trips of its service operation on that  *)
(* connection, each the statement sent and the reply to it, result[p] the  *)
(* dictionary its service operation returned,                              *)
(* raised[p] the exception its request raised into an except clause of     *)
(* process_jsonrpc_request or of mcp_endpoint, and resp[p] the response it *)
(* returned.                                                               *)
(***************************************************************************)
VARIABLES pc, req, resp, raised, result, connection_test, conn, trips,
          connection_pool, current_service, closed, serving

vars == <<pc, req, resp, raised, result, connection_test, conn, trips,
          connection_pool, current_service, closed, serving>>

NoRaise == [exc |-> "none", msg |-> <<>>]

NoRequest == [body |-> "none", jsonrpc |-> Missing, method |-> Missing,
              id |-> NoId, params |-> NoParams]

\* The awaits of asyncpg.create_pool, pool.acquire and conn.fetch/execute.
CreatePcs == {"gps_create", "tc_create", "op_create"}
AcquirePcs == {"tc_acquire", "op_acquire"}
QueryPcs == {"tc_fetch", "op_query"}
DbPcs == CreatePcs \cup AcquirePcs \cup QueryPcs

Init ==
    /\ pc = [p \in Procs |-> "idle"]
    /\ req = [p \in Procs |-> NoRequest]
    /\ resp = [p \in Procs |-> NoResponse]
    /\ raised = [p \in Procs |-> NoRaise]
    /\ result = [p \in Procs |-> NoResultDict]
    /\ connection_test = [p \in Procs |-> "none"]
    /\ conn = [p \in Procs |-> NoConn]
    /\ trips = [p \in Procs |-> <<>>]
    /\ connection_pool = 0
    /\ current_service = FALSE
    /\ closed = {}
    /\ serving = TRUE

\* No coroutine is between its return and the sending of its response: from
\* the return of process_jsonrpc_request to the end of mcp_endpoint (lines
\* 513-516) there is no await, so no other coroutine runs in between.
Running == \A q \in Procs : pc[q] # "done"

FinishWithoutResponse(p, response) ==
    /\ pc' = [pc EXCEPT ![p] = "done"]
    /\ resp' = [resp EXCEPT ![p] = NoResponse]

\* The coroutine returns its response.
Finish(p, response) ==
    /\ pc' = [pc EXCEPT ![p] = "done"]
    /\ resp' = [resp EXCEPT ![p] = response]

\* The coroutine suspends at an await.
Goto(p, label) ==
    /\ pc' = [pc EXCEPT ![p] = label]
    /\ resp' = [resp EXCEPT ![p] = NoResponse]
    /\ raised' = [raised EXCEPT ![p] = NoRaise]

\* process_jsonrpc_request returns the response for the outcome of
\* dispatch: lines 458-459 for a result, an except clause for an exception.
Return(p, r, out) ==
    /\ Finish(p, Wrap(r, out))
    /\ raised' = [raised EXCEPT ![p] = [exc |-> out.exc, msg |-> out.msg]]

\* Every service operation starts with `if not self.connection_pool`.
OpEntry(pool) == IF pool = 0 THEN "op_create" ELSE "op_acquire"

\* The coroutine suspends at the await of create_pool, or it evaluates
\* self.connection_pool.acquire() on the pool object `pool` and suspends
\* there; c is the connections as they are when it gets there.
Enter(p, label, pool, c) ==
    /\ Goto(p, label)
    /\ conn' = IF label \in AcquirePcs
               THEN [c EXCEPT ![p] = [pool |-> pool, held |-> FALSE]]
               ELSE c

\* handle_tools_call from line 200 on, with the service in hand.
AfterService(p, r, pool, c) ==
    /\ UNCHANGED result
    /\ IF ToolArguments(r.params).exc = "await"
       THEN Enter(p, OpEntry(pool), pool, c)
       ELSE /\ Return(p, r, ToolCatch(ToolArguments(r.params)))
            /\ conn' = c

SetServiceToLastTest(service, connected) == connected

\* get_postgres_service, lines 33-35: current_service is assigned when the
\* status of the test is "connected", and only then.
SetService(service, connected) == service \/ connected

\* get_postgres_service returns the service (connected) or raises, to
\* handle_initialize (lines 53-57) or to handle_tools_call (line 198).
GpsReturns(p, r, connected, err, pool, c) ==
    /\ connection_test' = [connection_test EXCEPT
                            ![p] = IF connected THEN "connected" ELSE "failed"]
    /\ current_service' = SetService(current_service, connected)
    /\ IF r.method = "initialize"
       THEN /\ Return(p, r, handle_initialize(IF connected THEN Ok(NoResult)
                                                         ELSE GpsFailure(err)))
            /\ conn' = c
            /\ UNCHANGED result
       ELSE IF connected
       THEN AfterService(p, r, pool, c)
       ELSE /\ Return(p, r, ToolCatch(GpsFailure(err)))
            /\ conn' = c
            /\ UNCHANGED result

\* A service operation returns its dictionary: to the tool of
\* handle_tools_call that awaited it, which makes its text of it, or to a
\* caller that called the service directly.
OpReturns(p, r, res) ==
    /\ result' = [result EXCEPT ![p] = res]
    /\ IF r.body = "direct"
       THEN /\ pc' = [pc EXCEPT ![p] = "done"]
            /\ UNCHANGED <<resp, raised>>
       ELSE Return(p, r, ToolCatch(ServiceResult(r.params.name, res.success,
                                                 res.error)))

(***************************************************************************)
(* mcp_endpoint for a POST: the body is read, process_jsonrpc_request      *)
(* parses and dispatches it, and the handler runs to its first await.      *)
(***************************************************************************)
Receive(p) ==
    /\ serving
    /\ Running
    /\ pc[p] = "idle"
    /\ \E r \in Requests :
        /\ req' = [req EXCEPT ![p] = r]
        /\ IF r.body # "object"
           THEN /\ Finish(p, EndpointFallback(r))
                /\ raised' = [raised EXCEPT
                                ![p] = [exc |-> BodyError(r), msg |-> <<>>]]
                /\ UNCHANGED <<conn, result>>
           ELSE IF ~ValidEnvelope(r)
           THEN /\ \E class \in {"ValueError", "Exception"} :
                      Return(p, r, Raise(class, <<"validation error">>))
                /\ UNCHANGED <<conn, result>>
           ELSE IF ~NeedsService(r)
           THEN /\ Return(p, r, DispatchSync(r))
                /\ UNCHANGED <<conn, result>>
           ELSE IF ~current_service
           THEN /\ Goto(p, "gps_create")
                /\ UNCHANGED <<conn, result>>
           ELSE IF r.method = "initialize"
           THEN /\ Return(p, r, handle_initialize(Ok(NoResult)))
                /\ UNCHANGED <<conn, result>>
           ELSE AfterService(p, r, connection_pool, conn)
    /\ UNCHANGED <<connection_test, trips, connection_pool, current_service,
                   closed, serving>>

(***************************************************************************)
(* initialize_pool, lines 67-80: asyncpg.create_pool returns a new pool,   *)
(* which replaces connection_pool, or raises, which leaves it.  The caller *)
(* is get_postgres_service (line 31), test_connection (line 93) or another *)
(* service operation (lines 127, 189, 252, 325).  test_connection and      *)
(* execute_query return a failure when it returned False; the others go on *)
(* to self.connection_pool.acquire(), which raises AttributeError when     *)
(* connection_pool is still None.                                          *)
(***************************************************************************)
CreatePoolReturns(p) ==
    /\ Running
    /\ pc[p] \in CreatePcs
    /\ \E ok \in BOOLEAN :
        /\ ok => connection_pool < MaxPools
        /\ connection_pool' = IF ok THEN connection_pool + 1 ELSE connection_pool
        /\ closed' = IF ok THEN initialize_pool_closed(connection_pool, closed)
                     ELSE closed
        /\ CASE pc[p] = "gps_create" ->
                  /\ Enter(p, IF connection_pool' = 0 THEN "tc_create"
                                                      ELSE "tc_acquire",
                           connection_pool', conn)
                  /\ UNCHANGED <<connection_test, current_service, result>>
             [] pc[p] = "tc_create" ->
                  IF ok
                  THEN /\ Enter(p, "tc_acquire", connection_pool', conn)
                       /\ UNCHANGED <<connection_test, current_service, result>>
                  ELSE GpsReturns(p, req[p], FALSE, PoolInitError,
                                  connection_pool', conn)
             [] pc[p] = "op_create" ->
                  /\ UNCHANGED <<connection_test, current_service>>
                  /\ IF ~ok /\ ChecksPoolInit(req[p].params.name)
                     THEN /\ OpReturns(p, req[p],
                                       OperationFailed(req[p].params.name,
                                                       PoolInitError,
                                                       req[p].params.query))
                          /\ UNCHANGED conn
                     ELSE IF connection_pool' = 0
                     THEN /\ OpReturns(p, req[p],
                                       OperationFailed(req[p].params.name,
                                                       NoneTypeAcquire,
                                                       req[p].params.query))
                          /\ UNCHANGED conn
                     ELSE /\ Enter(p, "op_acquire", connection_pool', conn)
                          /\ UNCHANGED result
    /\ UNCHANGED <<req, trips, serving>>

\* `async with self.connection_pool.acquire() as conn`: the connection is
\* handed out, or acquire raises.  execute_query then takes the first word
\* of the query (line 137), which raises IndexError when there is none.  The
\* operation sends its first statement and awaits the reply.
AcquireReturns(p) ==
    /\ Running
    /\ pc[p] \in AcquirePcs
    /\ \E ok \in BOOLEAN :
        IF pc[p] = "tc_acquire"
        THEN /\ UNCHANGED trips
             /\ IF ok
                THEN /\ Goto(p, "tc_fetch")
                     /\ conn' = [conn EXCEPT ![p].held = TRUE]
                     /\ UNCHANGED <<connection_test, current_service, result>>
                ELSE GpsReturns(p, req[p], FALSE, DbError, connection_pool,
                                [conn EXCEPT ![p] = NoConn])
        ELSE /\ UNCHANGED <<connection_test, current_service>>
             /\ IF ~ok
                THEN /\ OpReturns(p, req[p],
                                  OperationFailed(req[p].params.name, DbError,
                                                  req[p].params.query))
                     /\ conn' = [conn EXCEPT ![p] = NoConn]
                     /\ UNCHANGED trips
                ELSE IF /\ req[p].params.name = "postgres_query"
                        /\ Words(req[p].params.query) = <<>>
                THEN /\ OpReturns(p, req[p],
                                  OperationFailed(req[p].params.name,
                                                  IndexOutOfRange,
                                                  req[p].params.query))
                     /\ conn' = AsyncWithExit([conn EXCEPT ![p].held = TRUE],
                                              p, "error")
                     /\ UNCHANGED trips
                ELSE /\ Goto(p, "op_query")
                     /\ conn' = [conn EXCEPT ![p].held = TRUE]
                     /\ trips' = [trips EXCEPT
                                   ![p] = <<Trip(FirstStatement(
                                                   req[p].params.name,
                                                   req[p].params.query))>>]
                     /\ UNCHANGED result
    /\ UNCHANGED <<req, connection_pool, closed, serving>>

\* A round trip returns.  test_connection has one (line 101), and so have
\* execute_query and analyze_query_performance; get_table_info and
\* get_database_schema send their next statement on the same connection
\* until they return.  Leaving the operation leaves its `async with` block.
QueryReturns(p) ==
    /\ Running
    /\ pc[p] \in QueryPcs
    /\ IF pc[p] = "tc_fetch"
       THEN /\ \E outcome \in {"ok", "error"} :
                 GpsReturns(p, req[p], outcome = "ok", DbError,
                            connection_pool, AsyncWithExit(conn, p, outcome))
            /\ UNCHANGED trips
       ELSE \E reply \in Replies(trips[p][Len(trips[p])].statement,
                                 req[p].params.query) :
               LET name == req[p].params.name
                   got == [trips[p] EXCEPT ![Len(trips[p])].reply = reply]
               IN  /\ UNCHANGED <<connection_test, current_service>>
                   /\ IF NextStatement(name, got) \in {"return", "raise"}
                      THEN /\ trips' = [trips EXCEPT ![p] = got]
                           /\ OpReturns(p, req[p],
                                        OperationResult(name,
                                                        req[p].params.query,
                                                        got))
                           /\ conn' = AsyncWithExit(conn, p,
                                                    Outcome(name, got))
                      ELSE /\ trips' =
                                [trips EXCEPT
                                   ![p] = Append(got, Trip(NextStatement(name,
                                                                         got)))]
                           /\ UNCHANGED <<pc, resp, raised, result, conn>>
    /\ UNCHANGED <<req, connection_pool, closed, serving>>

\* mcp_endpoint sends the response (line 516, 524 or 532) and the coroutine
\* ends, or the direct caller has its dictionary; the slot takes the next
\* request.
Respond(p) ==
    /\ pc[p] = "done"
    /\ pc' = [pc EXCEPT ![p] = "idle"]
    /\ req' = [req EXCEPT ![p] = NoRequest]
    /\ resp' = [resp EXCEPT ![p] = NoResponse]
    /\ raised' = [raised EXCEPT ![p] = NoRaise]
    /\ result' = [result EXCEPT ![p] = NoResultDict]
    /\ connection_test' = [connection_test EXCEPT ![p] = "none"]
    /\ trips' = [trips EXCEPT ![p] = <<>>]
    /\ UNCHANGED <<conn, connection_pool, current_service, closed, serving>>

\* The server stops: it takes no new request, waits for the requests in
\* flight and then runs the shutdown part of lifespan.
Shutdown ==
    /\ serving
    /\ \A p \in Procs : pc[p] = "idle"
    /\ serving' = FALSE
    /\ closed' = lifespan_shutdown(connection_pool, closed)
    /\ UNCHANGED <<pc, req, resp, raised, result, connection_test, conn,
                   trips, connection_pool, current_service>>

Next ==
    \/ \E p \in Procs :
        \/ Receive(p)
        \/ Respond(p)
        \/ CreatePoolReturns(p)
        \/ AcquireReturns(p)
        \/ QueryReturns(p)
    \/ Shutdown

Spec == Init /\ [][Next]_vars

\* The next step of a request in flight: the round trip it awaits
\* (create_pool, acquire, a statement) returns or fails, or the response it
\* has returned is sent.
Proceed(p) ==
    \/ CreatePoolReturns(p)
    \/ AcquireReturns(p)
    \/ QueryReturns(p)
    \/ Respond(p)

\* The histories in which every round trip eventually returns or fails and
\* every response is sent.  A round trip is disabled only for the instant
\* in which another coroutine returns its response, hence strong fairness.
LiveSpec == Spec /\ \A p \in Procs : SF_vars(Proceed(p))

\* The histories in which requests arrive one after the other: a request is
\* received only when no other is in flight.
SeqNext ==
    \/ \E p \in Procs :
        \/ Receive(p) /\ \A q \in Procs : pc[q] = "idle"
        \/ Respond(p)
        \/ CreatePoolReturns(p)
        \/ AcquireReturns(p)
        \/ QueryReturns(p)
    \/ Shutdown

SeqSpec == Init /\ [][SeqNext]_vars

(***************************************************************************)
(* The service called directly, as a caller other than the MCP handlers    *)
(* calls it: postgres_service.execute_query(query), without the argument   *)
(* checks of handle_tools_call and without get_postgres_service.           *)
(***************************************************************************)
DirectCall(name, query, table_name) ==
    [body |-> "direct", jsonrpc |-> Missing, method |-> Missing, id |-> NoId,
     params |-> Call(name, TRUE, Missing, query, table_name)]

DirectCalls ==
    {DirectCall("postgres_query", q, Missing) : q \in SqlTexts}
    \cup {DirectCall("postgres_schema", Missing, Missing),
          DirectCall("postgres_table_info", Missing, "users"),
          DirectCall("postgres_query_analyze", "SELECT 1", Missing)}

CallService(p) ==
    /\ Running
    /\ pc[p] = "idle"
    /\ \E r \in DirectCalls :
        /\ req' = [req EXCEPT ![p] = r]
        /\ Enter(p, OpEntry(connection_pool), connection_pool, conn)
    /\ UNCHANGED <<result, connection_test, trips, connection_pool,
                   current_service, closed, serving>>

ServiceNext ==
    \E p \in Procs :
        \/ CallService(p)
        \/ Respond(p)
        \/ CreatePoolReturns(p)
        \/ AcquireReturns(p)
        \/ QueryReturns(p)

ServiceSpec == Init /\ [][ServiceNext]_vars

\* The service called by one caller at a time, with every statement of the
\* model: what an operation makes of its arguments and of the replies of
\* the database.
CallServiceAlone(p) ==
    /\ \A q \in Procs : pc[q] = "idle"
    /\ \E r \in DirectCalls
               \cup {DirectCall("postgres_query", q, Missing) :
                       q \in Statements} :
        /\ req' = [req EXCEPT ![p] = r]
        /\ Enter(p, OpEntry(connection_pool), connection_pool, conn)
    /\ UNCHANGED <<result, connection_test, trips, connection_pool,
                   current_service, closed, serving>>

SeqServiceNext ==
    \E p \in Procs :
        \/ CallServiceAlone(p)
        \/ Respond(p)
        \/ CreatePoolReturns(p)
        \/ AcquireReturns(p)
        \/ QueryReturns(p)

SeqServiceSpec == Init /\ [][SeqServiceNext]_vars

(***************************************************************************)
(* The properties.                                                         *)
(***************************************************************************)
Done(p) == pc[p] = "done"

Contains(seq, x) == \E i \in DOMAIN seq : seq[i] = x

KnownTools == {ToolNames[i] : i \in DOMAIN ToolNames}

\* A well-formed envelope for tools/call that carries a params object.
IsToolCall(r) ==
    /\ r.body = "object"
    /\ ValidEnvelope(r)
    /\ r.method = "tools/call"
    /\ r.params.present

IsSuccess(response) == response.keys = {"jsonrpc", "id", "result"}
IsRpcError(response) == response.keys = {"jsonrpc", "id", "error"}

\* C1: the response to an envelope that carries an id carries that id, with
\* its value and its JSON type, whether dispatch returned, raised ValueError
\* or raised another exception.
C1_IdEchoed ==
    \A p \in Procs :
        (Done(p) /\ req[p].body = "object" /\ req[p].id.t \in {"number", "string"})
            => /\ "id" \in resp[p].keys
               /\ resp[p].id = req[p].id

\* C1 witness: a tools/call without params raises AttributeError, and its
\* string id comes back on the INTERNAL_ERROR response.
C1_Witness ==
    \E p \in Procs :
        /\ Done(p)
        /\ req[p].method = "tools/call" /\ ~req[p].params.present
        /\ req[p].id = StrId
        /\ IsRpcError(resp[p]) /\ resp[p].error.code = INTERNAL_ERROR
        /\ resp[p].id = StrId

\* C2: every response to a POSTed body, JSON object or not, holds exactly one
\* of "result" and "error".
C2_ExactlyOneOfResultError ==
    \A p \in Procs :
        Done(p) => (("result" \in resp[p].keys) # ("error" \in resp[p].keys))

\* C2 witness: a JSON body that is no object is answered with an error and
\* no result.
C2_Witness ==
    \E p \in Procs :
        /\ Done(p) /\ req[p].body = "nonobject"
        /\ "error" \in resp[p].keys /\ "result" \notin resp[p].keys

\* C3: while no pool exists, concurrent PostgreSQL calls make one call of
\* asyncpg.create_pool: a second caller does not start its own while the
\* first is in flight.
C3_SingleFlightInit ==
    connection_pool = 0 => Cardinality({p \in Procs : pc[p] \in CreatePcs}) <= 1

\* C4: in a sequential history, once a pool exists no later request creates
\* a second pool or replaces the pool object.
C4_PoolNeverReplaced ==
    [][connection_pool # 0 => connection_pool' = connection_pool]_vars

IsEmptyQueryCall(r) ==
    /\ IsToolCall(r)
    /\ r.params.name = "postgres_query"
    /\ r.params.isobject
    /\ Strip(Get(r.params, "query", "")) = ""

\* C5: a postgres_query call with an empty or whitespace-only query performs
\* no database operation and is answered "Query cannot be empty" with
\* isError true, in every server state.
C5_EmptyQueryNeverReachesDb ==
    \A p \in Procs :
        IsEmptyQueryCall(req[p]) =>
            /\ pc[p] \notin DbPcs
            /\ Done(p) =>
                /\ IsSuccess(resp[p])
                /\ resp[p].result.isError
                /\ Contains(resp[p].result.content[1].text, "Query cannot be empty")

\* The causes of an RPC-level error the claim C6 names: an unknown method, an
\* unknown tool, a malformed envelope (or a body that is no envelope).
C6_NamedCause(r) ==
    \/ r.body # "object"
    \/ ~ValidEnvelope(r)
    \/ r.method \notin handlers
    \/ IsToolCall(r) /\ r.params.name \notin KnownTools

C6_KnownToolAnswered(p) ==
    (IsToolCall(req[p]) /\ req[p].params.name \in KnownTools)
        => /\ IsSuccess(resp[p])
           /\ "isError" \in resp[p].result.keys

\* C6 as stated: a call of a known tool is answered with a success envelope
\* whose result carries isError, and an RPC-level error is produced only for
\* unknown methods, unknown tools or malformed envelopes.
C6_Original ==
    \A p \in Procs :
        Done(p) =>
            /\ C6_KnownToolAnswered(p)
            /\ IsRpcError(resp[p]) => C6_NamedCause(req[p])

\* C6 amended: as C6, with one more cause of an RPC-level error: a tools/call
\* request that carries no params object.
C6_Amended ==
    \A p \in Procs :
        Done(p) =>
            /\ C6_KnownToolAnswered(p)
            /\ IsRpcError(resp[p]) =>
                \/ C6_NamedCause(req[p])
                \/ req[p].method = "tools/call" /\ ~req[p].params.present

\* C6 witness: a known PostgreSQL tool whose service operation failed is
\* answered with a success envelope and isError true.
C6_Witness ==
    \E p \in Procs :
        /\ Done(p) /\ IsToolCall(req[p])
        /\ req[p].params.name = "postgres_schema"
        /\ connection_test[p] = "connected"
        /\ IsSuccess(resp[p]) /\ resp[p].result.isError

\* C7: a failure of pool initialization or of the first connection test
\* during a PostgreSQL tool call comes back as a tool-level error: a success
\* envelope with isError true and a diagnostic text.
C7_InitFailureIsToolError ==
    \A p \in Procs :
        (Done(p) /\ IsToolCall(req[p]) /\ connection_test[p] = "failed")
            => /\ IsSuccess(resp[p])
               /\ resp[p].result.isError
               /\ Len(resp[p].result.content) = 1
               /\ resp[p].result.content[1].text[1] = "Tool execution error: "
               /\ \/ Contains(resp[p].result.content[1].text, PoolInitError)
                  \/ Contains(resp[p].result.content[1].text, DbError)

\* C7 witness: both create_pool calls of a tool call failed.
C7_Witness ==
    \E p \in Procs :
        /\ Done(p) /\ IsToolCall(req[p]) /\ connection_test[p] = "failed"
        /\ connection_pool = 0
        /\ Contains(resp[p].result.content[1].text, PoolInitError)

IsUnknownMethod(r) ==
    r.body = "object" /\ ValidEnvelope(r) /\ r.method \notin handlers

\* C8: a method outside the dispatch table is answered with error -32601
\* whose message holds the method name, and no handler runs for it.
C8_UnknownMethod ==
    \A p \in Procs :
        IsUnknownMethod(req[p]) =>
            /\ pc[p] \notin DbPcs
            /\ Done(p) =>
                /\ IsRpcError(resp[p])
                /\ resp[p].error.code = 0 - 32601
                /\ Contains(resp[p].error.message, req[p].method)

C8_Witness ==
    \E p \in Procs :
        /\ Done(p) /\ IsUnknownMethod(req[p])
        /\ req[p].method = "bogus/method"
        /\ resp[p].error.message = <<"Method not found: ", "bogus/method">>

IsUnknownToolCall(r) == IsToolCall(r) /\ r.params.name \notin KnownTools

\* C9: a tools/call of a name that is none of the six tools is answered with
\* error -32601 "Unknown tool: <name>", before any pool initialization or
\* database access, in every pool state.
C9_UnknownTool ==
    \A p \in Procs :
        IsUnknownToolCall(req[p]) =>
            /\ pc[p] \notin DbPcs
            /\ connection_test[p] = "none"
            /\ Done(p) =>
                /\ IsRpcError(resp[p])
                /\ resp[p].error.code = 0 - 32601
                /\ resp[p].error.message = <<"Unknown tool: ", req[p].params.name>>

\* C9 witness: the unknown tool is refused while another call is creating
\* the pool.
C9_Witness ==
    \E p, q \in Procs :
        /\ Done(p) /\ IsUnknownToolCall(req[p])
        /\ req[p].params.name = "bogus_tool"
        /\ pc[q] \in CreatePcs /\ ~current_service

IsEchoCall(r) ==
    /\ IsToolCall(r)
    /\ r.params.name = "echo"
    /\ r.params.isobject
    /\ r.params.message \in Messages

\* C10: echo of a string s returns one text item "Echo: " followed by s with
\* isError false, with no pool initialization or database access, in every
\* pool state.
C10_Echo ==
    \A p \in Procs :
        IsEchoCall(req[p]) =>
            /\ pc[p] \notin DbPcs
            /\ connection_test[p] = "none"
            /\ Done(p) =>
                /\ IsSuccess(resp[p])
                /\ resp[p].result.content =
                      <<[type |-> "text",
                         text |-> <<"Echo: ", req[p].params.message>>]>>
                /\ resp[p].result.isError = FALSE

\* C10 witness: a multi-line message is echoed before any pool exists.
C10_Witness ==
    \E p \in Procs :
        /\ Done(p) /\ IsEchoCall(req[p])
        /\ req[p].params.message = "line1\nline2"
        /\ connection_pool = 0 /\ ~current_service

\* A body that is not parseable JSON: text that is no JSON, or bytes that
\* are no text.
IsUnparseable(r) == r.body \in {"garbage", "undecodable"}

\* C11: a request body that is not parseable JSON is answered with error
\* -32700 and a null id, and no method handler is dispatched for it.
C11_ParseError ==
    \A p \in Procs :
        IsUnparseable(req[p]) =>
            /\ pc[p] \notin DbPcs
            /\ connection_test[p] = "none"
            /\ Done(p) =>
                /\ IsRpcError(resp[p])
                /\ resp[p].error.code = 0 - 32700
                /\ resp[p].id = NullId

\* The request went through process_jsonrpc_request and came back with an
\* RPC error response.
DispatchFailed(p) ==
    Done(p) /\ req[p].body = "object" /\ IsRpcError(resp[p])

\* The exception is the unknown-method signal of dispatch_request or the
\* unknown-tool signal of handle_tools_call.
IsRoutingSignal(e) ==
    /\ e.exc = "ValueError"
    /\ Len(e.msg) = 2
    /\ e.msg[1] \in {"Method not found: ", "Unknown tool: "}

\* C12: the code of an RPC error response follows the category of the
\* exception raised during dispatch: -32601 for the unknown-method and the
\* unknown-tool signal, -32603 for every other exception, and -32601 for
\* nothing else.
C12_CodeByCategory ==
    \A p \in Procs :
        DispatchFailed(p) =>
            /\ raised[p].exc # "none"
            /\ resp[p].error.code =
                  IF IsRoutingSignal(raised[p]) THEN 0 - 32601 ELSE 0 - 32603

\* C13: an envelope with a missing or invalid protocol tag, method or id is
\* answered with a structural error and no handler is dispatched for it;
\* METHOD_NOT_FOUND answers only a well-formed envelope whose method is
\* absent from the dispatch table.
C13_StructuralError ==
    \A p \in Procs :
        (Done(p) /\ req[p].body = "object") =>
            /\ ~ValidEnvelope(req[p]) =>
                /\ IsRpcError(resp[p])
                /\ resp[p].error.code # METHOD_NOT_FOUND
                /\ connection_test[p] = "none"
            /\ (IsRpcError(resp[p]) /\ resp[p].error.code = METHOD_NOT_FOUND) =>
                /\ ValidEnvelope(req[p])
                /\ req[p].method \notin handlers

IsInitialize(r) ==
    r.body = "object" /\ ValidEnvelope(r) /\ r.method = "initialize"

\* C14: initialize returns the same payload (protocol_version "2024-11-05",
\* tools and resources capabilities with listChanged false, server name
\* "postgres-mcp-server", version "1.0.0") whether its pool warm-up succeeds
\* or fails, and never an error response.
C14_InitializePayload ==
    \A p \in Procs :
        (Done(p) /\ IsInitialize(req[p])) =>
            /\ IsSuccess(resp[p])
            /\ resp[p].result.keys =
                  {"protocol_version", "capabilities", "server_info"}
            /\ resp[p].result.data =
                  <<"2024-11-05", "tools.listChanged: False",
                    "resources.listChanged: False", "postgres-mcp-server",
                    "1.0.0">>

\* C14 witness: initialize answered after its warm-up failed.
C14_Witness ==
    \E p \in Procs :
        /\ Done(p) /\ IsInitialize(req[p])
        /\ connection_test[p] = "failed" /\ ~current_service
        /\ IsSuccess(resp[p])

\* The names a tools/call may carry in the model.
CallNames == {c.name : c \in ToolCalls}

\* The names handle_tools_call takes without raising the unknown-tool
\* signal: the call goes on to get_postgres_service, or its prologue ends
\* otherwise than in ValueError.
AcceptedTools ==
    {n \in CallNames :
        \/ IsPostgresCall(Call(n, TRUE, Missing, Missing, Missing))
        \/ ~IsValueError(ToolPrologue(Call(n, TRUE, Missing, Missing, Missing)).exc)}

IsToolsList(r) ==
    r.body = "object" /\ ValidEnvelope(r) /\ r.method = "tools/list"

\* C15: after any sequence of requests tools/list returns the same six
\* descriptors with pairwise distinct names, and the listed names are exactly
\* the names tools/call accepts without the unknown-tool signal.
C15_ToolsList ==
    \A p \in Procs :
        /\ (Done(p) /\ IsToolsList(req[p])) =>
              /\ IsSuccess(resp[p])
              /\ Len(resp[p].result.data) = 6
              /\ \A i, j \in 1 .. 6 :
                    i # j => resp[p].result.data[i] # resp[p].result.data[j]
              /\ {resp[p].result.data[i] : i \in 1 .. 6} = AcceptedTools
        /\ (Done(p) /\ IsToolCall(req[p])) =>
              (IsRoutingSignal(raised[p]) <=> req[p].params.name \notin KnownTools)

\* C15 witness: tools/list answered after a pool was created and replaced.
C15_Witness ==
    \E p \in Procs :
        /\ Done(p) /\ IsToolsList(req[p])
        /\ connection_pool = 2 /\ current_service
        /\ resp[p].result.data[6] = "postgres_query_analyze"

\* C16 as stated: the message of an RPC error response produced for an
\* exception raised during dispatch is that exception's message, for -32601
\* and for -32603 alike.
C16_Original ==
    \A p \in Procs :
        DispatchFailed(p) => resp[p].error.message = raised[p].msg

\* C16 amended: the message of a -32601 response is the exception's message;
\* the message of a -32603 response is the fixed text "Internal server
\* error".
C16_Amended ==
    \A p \in Procs :
        DispatchFailed(p) =>
            /\ resp[p].error.code = 0 - 32601 =>
                  resp[p].error.message = raised[p].msg
            /\ resp[p].error.code = 0 - 32603 =>
                  resp[p].error.message = <<"Internal server error">>
            /\ resp[p].error.code \in {0 - 32601, 0 - 32603}

\* C16 witness: the AttributeError of a tools/call without params is
\* answered with the fixed text, not with its own message.
C16_Witness ==
    \E p \in Procs :
        /\ DispatchFailed(p)
        /\ raised[p] = [exc |-> "AttributeError", msg |-> NoneTypeGet]
        /\ resp[p].error.code = 0 - 32603
        /\ resp[p].error.message = <<"Internal server error">>

\* C17: the shared pool is not closed while a request in flight holds a
\* connection acquired from it, and no pool is closed while the server
\* accepts requests.
C17_PoolNotClosedInUse ==
    /\ \A p \in Procs : conn[p].held => conn[p].pool \notin closed
    /\ serving => closed = {}

\* C17 witness: a request holds a connection of the first pool after
\* another request has put a second pool in its place.
C17_Witness ==
    \E p \in Procs :
        /\ pc[p] \in QueryPcs /\ conn[p].held
        /\ conn[p].pool = 1 /\ connection_pool = 2
        /\ serving /\ closed = {}

\* C18: a connection is held only inside the `async with` block of a
\* service operation: once a call has produced its response it holds none,
\* whatever way the block was left, and none is carried into the next call.
C18_ConnectionsReleased ==
    \A p \in Procs :
        /\ conn[p].held => pc[p] \in QueryPcs
        /\ pc[p] \in {"idle", "done"} => conn[p] = NoConn

\* C18 witness: get_table_info left its block by the early not-found return.
C18_Witness ==
    \E p \in Procs :
        /\ Done(p) /\ IsToolCall(req[p])
        /\ req[p].params.name = "postgres_table_info"
        /\ result[p].returned /\ result[p].error = TableNotFound
        /\ conn[p] = NoConn

\* execute_query called directly with an SQL text.
IsExecuteQuery(r) == r.body = "direct" /\ r.params.name = "postgres_query"

C20_EmptySqlRejected ==
    \A p \in Procs :
        (IsExecuteQuery(req[p]) /\ Strip(req[p].params.query) = "") =>
            /\ pc[p] \notin DbPcs
            /\ ~conn[p].held
            /\ Done(p) =>
                /\ ~result[p].success
                /\ result[p].error \notin
                      {PoolInitError, DbError, IndexOutOfRange}

\* A direct call of execute_query by p has returned the dictionary of a
\* SELECT, and the rows conn.fetch returned to it.
SelectReturned(p) ==
    /\ Done(p) /\ IsExecuteQuery(req[p])
    /\ trips[p] # <<>> /\ trips[p][1].statement = "fetch"
    /\ result[p].success

Fetched(p) == trips[p][1].reply.value[1]

TemporalTypes == {"date", "datetime", "time"}

\* The mapping d is the record rec: the same keys in the same order, with
\* the same values where they are not temporal.
SameRow(d, rec) ==
    /\ Len(d) = Len(rec)
    /\ \A k \in DOMAIN rec :
        /\ d[k].key = rec[k].key
        /\ rec[k].value.type \notin TemporalTypes => d[k].value = rec[k].value

C21_RowsReported(p) ==
    /\ result[p].row_count = <<Len(Fetched(p))>>
    /\ Len(result[p].data[1]) = Len(Fetched(p))
    /\ \A i \in DOMAIN Fetched(p) :
          SameRow(result[p].data[1][i], Fetched(p)[i])

\* C21 as stated: a successful SELECT that returns N rows, N = 0 included,
\* reports row_count N, a data sequence of the N rows in the order returned
\* and a column list equal to the projected columns of the query.
C21_Original ==
    \A p \in Procs :
        SelectReturned(p) =>
            /\ C21_RowsReported(p)
            /\ result[p].columns = <<Projection(req[p].params.query)>>

\* C21, amended: a successful SELECT that returns N rows reports row_count
\* N and a data sequence of the N rows in the order returned; its column
\* list is the projected columns of the query when N >= 1 and is empty
\* when N = 0.
C21_Amended ==
    \A p \in Procs :
        SelectReturned(p) =>
            /\ C21_RowsReported(p)
            /\ result[p].columns =
                  <<IF Len(Fetched(p)) >= 1
                    THEN Projection(req[p].params.query)
                    ELSE <<>>>>

\* C21 witness: a SELECT of two columns returned no row.
C21_Witness ==
    \E p \in Procs :
        /\ SelectReturned(p)
        /\ Projection(req[p].params.query) = <<"a", "b">>
        /\ Fetched(p) = <<>>
        /\ result[p].row_count = <<0>> /\ result[p].columns = <<<<>>>>

\* C22: every date/time-typed value of a row a SELECT returns, a date, a
\* timestamp and a time of day alike, leaves execute_query as its ISO-8601
\* text; the values of every other type are returned unchanged.
C22_TemporalAsIsoText ==
    \A p \in Procs :
        SelectReturned(p) =>
            \A i \in DOMAIN Fetched(p) : \A k \in DOMAIN Fetched(p)[i] :
                LET value == Fetched(p)[i][k].value
                    returned == result[p].data[1][i][k].value IN
                IF value.type \in TemporalTypes
                THEN returned = isoformat(value)
                ELSE returned = value

\* The count of a status tag: its last word, when that is made of digits.
Digits == {"0", "1", "2", "3", "4", "5", "6", "7", "8", "9"}
LastWord(tag) == split(tag)[Len(split(tag))]
HasCount(tag) ==
    /\ split(tag) # <<>>
    /\ \A i \in DOMAIN LastWord(tag) : LastWord(tag)[i] \in Digits

\* The value execute_query has for a tag without a count (line 173).
Sentinel == <<"0">>

\* A direct call of execute_query by p had the status tag of a statement
\* that is not a SELECT.
Executed(p) ==
    /\ Done(p) /\ IsExecuteQuery(req[p])
    /\ trips[p] # <<>> /\ trips[p][1].statement = "execute"
    /\ trips[p][1].reply.error = Missing

\* C23: for a statement that is not a SELECT and that the database
\* executed, the call reports success, and affected_rows is the row count
\* parsed from the status tag, or a sentinel when the tag has no parseable
\* count ("CREATE TABLE", or an empty tag).
C23_AffectedRows ==
    \A p \in Procs :
        Executed(p) =>
            /\ result[p].success
            /\ result[p].affected_rows =
                  <<IF HasCount(Fetched(p)) THEN LastWord(Fetched(p))
                    ELSE Sentinel>>

\* The first whitespace-delimited keyword of a text: the characters from
\* its first non-whitespace character up to the next whitespace.
FirstKeyword(text) ==
    LET starts == {i \in DOMAIN text : text[i] \notin Whitespace}
        first == CHOOSE i \in starts : \A j \in starts : i <= j
        ends == {j \in first..Len(text) :
                    /\ \A k \in first..j : text[k] \notin Whitespace
                    /\ j = Len(text) \/ text[j + 1] \in Whitespace}
    IN  IF starts = {} THEN <<>>
        ELSE SubSeq(text, first, CHOOSE j \in ends : TRUE)

\* The keyword is SELECT in any mix of upper and lower case.
IsSelectKeyword(word) ==
    /\ Len(word) = Len(SELECT)
    /\ \A i \in DOMAIN word :
          word[i] \in {SELECT[i], LowerCase[CHOOSE j \in DOMAIN UpperCase :
                                              UpperCase[j] = SELECT[i]]}

InTableInfo(p) ==
    req[p].params.name = "postgres_table_info" /\ trips[p] # <<>>

\* C25: get_table_info sends its queries in the order table metadata,
\* columns, indexes, row count, each after the reply to the one before; when
\* the metadata query finds no table it returns success false without
\* sending the other three; an exception of any query is returned as a
\* failure: no exception escapes, and no result is a partial success.
C25_TableInfoInOrder ==
    \A p \in Procs :
        InTableInfo(p) =>
            /\ Len(trips[p]) <= 4
            /\ \A k \in DOMAIN trips[p] :
                  /\ trips[p][k].statement =
                        <<"table_query", "columns_query", "indexes_query",
                          "count_query">>[k]
                  /\ k < Len(trips[p]) =>
                        /\ trips[p][k].reply.answered
                        /\ trips[p][k].reply.error = Missing
                        /\ k = 1 => trips[p][k].reply.value # <<NoRow>>
            /\ Done(p) =>
                  /\ result[p].returned
                  /\ req[p].body = "object" => IsSuccess(resp[p])
                  /\ trips[p][1].reply.value = <<NoRow>> =>
                        /\ Len(trips[p]) = 1
                        /\ ~result[p].success
                        /\ result[p].error = TableNotFound
                  /\ (\E k \in DOMAIN trips[p] :
                         trips[p][k].reply.error # Missing) =>
                        ~result[p].success /\ result[p].error # Missing
                  /\ IF result[p].success
                     THEN /\ Len(trips[p]) = 4
                          /\ result[p].table_info # <<>>
                          /\ result[p].columns # <<>>
                          /\ result[p].indexes # <<>>
                          /\ result[p].row_count # <<>>
                     ELSE /\ result[p].table_info = <<>>
                          /\ result[p].columns = <<>>
                          /\ result[p].indexes = <<>>
                          /\ result[p].row_count = <<>>

\* C25 witness: the tool asked for a table that is not there and the call
\* returned after the metadata query.
C25_Witness ==
    \E p \in Procs :
        /\ Done(p) /\ InTableInfo(p) /\ req[p].body = "object"
        /\ trips[p][1].reply.value = <<NoRow>>
        /\ Len(trips[p]) = 1

\* The coroutine p runs get_database_schema and has sent a statement.
InSchema(p) == req[p].params.name = "postgres_schema" /\ trips[p] # <<>>

\* The tables the catalog listed to get_database_schema.
Listed(p) == trips[p][1].reply.value[1]

\* C26: get_database_schema returns a complete report or a failure: when
\* the table-list query or a column query fails it returns success false
\* without schema data; on success the report has one entry for each listed
\* table under the key schema.table, and table_count is the number of
\* entries.
C26_SchemaCompleteOrFailed ==
    \A p \in Procs :
        (Done(p) /\ InSchema(p)) =>
            /\ result[p].returned
            /\ (\E k \in DOMAIN trips[p] : trips[p][k].reply.error # Missing)
                  => /\ ~result[p].success
                     /\ result[p].schema = <<>>
                     /\ result[p].table_count = <<>>
            /\ result[p].success =>
                  /\ Len(trips[p]) = 1 + Len(Listed(p))
                  /\ \A i \in DOMAIN Listed(p) :
                        LET key == Listed(p)[i].schemaname \o <<".">>
                                   \o Listed(p)[i].tablename IN
                        /\ key \in DOMAIN result[p].schema[1]
                        /\ result[p].schema[1][key] = Listed(p)[i]
                  /\ result[p].table_count
                        = <<Cardinality(DOMAIN result[p].schema[1])>>

\* The coroutine p runs analyze_query_performance and has sent the EXPLAIN.
InAnalyze(p) ==
    req[p].params.name = "postgres_query_analyze" /\ trips[p] # <<>>

\* The plan is a list whose first item has the root node under "Plan".
HasRootNode(plan) ==
    /\ plan.type = "list" /\ plan.v # <<>>
    /\ plan.v[1].type = "dict" /\ "Plan" \in DOMAIN plan.v[1].v
    /\ plan.v[1].v["Plan"].type = "dict"

\* C27: when the EXPLAIN succeeds, analyze_query_performance reports
\* success with the raw plan in execution_plan, also when the plan has not
\* the expected shape; the analysis then has an error entry and nothing
\* else.
C27_BadPlanStillSucceeds ==
    \A p \in Procs :
        (Done(p) /\ InAnalyze(p) /\ trips[p][1].reply.error = Missing) =>
            /\ result[p].success
            /\ result[p].execution_plan = trips[p][1].reply.value
            /\ IF HasRootNode(trips[p][1].reply.value[1])
               THEN "error" \notin DOMAIN result[p].analysis[1]
               ELSE DOMAIN result[p].analysis[1] = {"error"}

\* C27 witness: the plan came as JSON text, not as a list, and the analysis
\* is the error of the extraction.
C27_Witness ==
    \E p \in Procs :
        /\ Done(p) /\ InAnalyze(p)
        /\ trips[p][1].reply.value[1].type = "str"
        /\ result[p].success
        /\ result[p].analysis[1]
              = "error" :> "string indices must be integers"

\* A well-formed envelope for tools/call without params, absent or null.
IsBareToolsCall(r) ==
    /\ r.body = "object"
    /\ ValidEnvelope(r)
    /\ r.method = "tools/call"
    /\ ~r.params.present

\* C29: a tools/call without params is answered with the RPC error -32603
\* and the id of the request, not with a tool result whose isError is
\* true, and it goes nowhere near the pool: no pool creation, no acquire,
\* no statement.
C29_NoParamsIsInternalError ==
    \A p \in Procs :
        IsBareToolsCall(req[p]) =>
            /\ pc[p] \notin DbPcs
            /\ conn[p] = NoConn /\ trips[p] = <<>>
            /\ Done(p) =>
                /\ IsRpcError(resp[p])
                /\ resp[p].error.code = INTERNAL_ERROR
                /\ resp[p].id = RequestDataId(req[p])
                /\ req[p].id.t \in {"number", "string"} =>
                      resp[p].id = req[p].id

\* C29 witness: such a call with a number id was answered while no pool
\* existed, and none exists after it.
C29_Witness ==
    \E p \in Procs :
        /\ Done(p) /\ IsBareToolsCall(req[p])
        /\ req[p].id = NumId /\ resp[p].id = NumId
        /\ resp[p].error.code = INTERNAL_ERROR
        /\ connection_pool = 0

\* The request is an initialize or a call of a PostgreSQL tool.
UsesService(r) ==
    \/ IsInitialize(r)
    \/ /\ IsToolCall(r)
       /\ r.params.name \in {"postgres_connection_test", "postgres_query",
                             "postgres_schema", "postgres_table_info",
                             "postgres_query_analyze"}

\* get_postgres_service is running its pool initialization or its test.
TestPcs == {"gps_create", "tc_create", "tc_acquire", "tc_fetch"}

\* C30: current_service is set only by a connection test that reported
\* "connected", and once set it stays set.  A PostgreSQL tool call or an
\* initialize that arrives while it is unset starts the pool
\* initialization and the test anew; one that arrives when it is set
\* skips both.
C30_ServiceSetOnce ==
    [][/\ current_service => current_service'
       /\ (~current_service /\ current_service') =>
             \E p \in Procs : /\ pc[p] = "tc_fetch"
                              /\ connection_test'[p] = "connected"
       /\ \A p \in Procs :
             (connection_test'[p] = "connected") => current_service'
       /\ \A p \in Procs :
             (pc[p] = "idle" /\ pc'[p] # "idle" /\ UsesService(req'[p])) =>
                IF current_service
                THEN pc'[p] \notin TestPcs /\ connection_test'[p] = "none"
                ELSE pc'[p] = "gps_create"]_vars

\* C30 witness: a tool call that arrived after current_service was set is
\* at the acquire of its operation without a connection test of its own.
C30_Witness ==
    \E p \in Procs :
        /\ current_service
        /\ UsesService(req[p]) /\ pc[p] = "op_acquire"
        /\ connection_test[p] = "none"

\* The request of p has its one response: a success or an error.
Answered(p) ==
    /\ Done(p)
    /\ (("result" \in resp[p].keys) # ("error" \in resp[p].keys))

\* C28: when every database round trip eventually returns or fails, every
\* request that was dispatched is eventually answered with one response,
\* a success or an error and not both, whatever the other requests do; a
\* response, once returned, is not replaced by another.
C28_EventuallyOneResponse ==
    /\ \A p \in Procs : (pc[p] # "idle") ~> Answered(p)
    /\ [](\A p \in Procs : Done(p) => Answered(p))
    /\ [][\A p \in Procs :
            Done(p) => \/ resp'[p] = resp[p] /\ pc'[p] = "done"
                       \/ resp'[p] = NoResponse /\ pc'[p] = "idle"]_vars

\* C28 witness: a tool call has its answer from the database while another
\* request waits for a round trip.
C28_Witness ==
    \E p, q \in Procs :
        /\ p # q
        /\ Answered(p) /\ result[p].returned /\ req[p].body = "object"
        /\ pc[q] \in DbPcs

====
